---- MODULE Spec2Model ----
(***************************************************************************)
(* Model of src/main.rs: a password-policy line parser (Parser::parse),    *)
(* the two validation rules (Record::validate) and the driver (main) that  *)
(* folds the per-line results into two totals.                             *)
(*                                                                         *)
(* A string is a sequence of characters; a character is a one-element      *)
(* token such as "a", "-", " " or "\t".  The token "U+0663" stands for the *)
(* single character ARABIC-INDIC DIGIT THREE, which the regex class \d     *)
(* matches and u64::from_str rejects.                                      *)
(***************************************************************************)
EXTENDS Integers, Sequences, FiniteSets, TLC

VARIABLES
    args,             \* env::args(): <<program>> or <<program, filename>>
    fs_ok,            \* whether File::open(args[1]) succeeds
    file,             \* the items io::Lines yields: Ok(line) or Err(io error)
    overflow_checks,  \* build profile: TRUE = debug (arithmetic overflow panics)
    pc,               \* position of main
    opened,           \* whether File::open has been called
    pos,              \* number of items the fold has consumed
    acc,              \* the fold accumulator (old_acc, new_acc)
    stdout,           \* the lines printed so far
    exit,             \* what main returned: Ok(()) or Err(Error)
    line,             \* unit harness: the &str handed to Parser::parse
    rec,              \* unit harness: what Parser::parse returned
    res,              \* unit harness: what Record::validate returned
    upc               \* unit harness: position

vars == <<args, fs_ok, file, overflow_checks, pc, opened, pos, acc, stdout,
          exit, line, rec, res, upc>>

mainVars == <<args, fs_ok, file, pc, opened, pos, acc, stdout, exit>>
unitVars == <<line, rec, res, upc>>

----------------------------------------------------------------------------
(* Bounds *)

\* Width of the model's u64 (the program's is 64; TLC integers are 32-bit).
U64_BITS == 4
\* Longest password the unit harness generates.
MaxPwLen == 3
\* Most items in the input file.
MaxLines == 3

U64_MAX == 2 ^ U64_BITS - 1

----------------------------------------------------------------------------
(* Characters and the regex character classes of Parser::new *)

AsciiDigits == {"0", "1", "2", "3", "4", "5", "6", "7", "8", "9"}

DigitValue(c) ==
    CASE c = "0" -> 0 [] c = "1" -> 1 [] c = "2" -> 2 [] c = "3" -> 3
      [] c = "4" -> 4 [] c = "5" -> 5 [] c = "6" -> 6 [] c = "7" -> 7
      [] c = "8" -> 8 [] c = "9" -> 9

Letters == {"a", "b", "c", "d", "e", "f", "g", "l", "z"}

\* \d : any Unicode decimal digit
IsDigit(c) == c \in AsciiDigits \cup {"U+0663"}
\* \s : whitespace
IsSpace(c) == c \in {" ", "\t"}
\* \w : word character
IsWord(c) == IsDigit(c) \/ c \in Letters \/ c = "_"
\* .  : any character except the line feed
IsAny(c) == c # "\n"

----------------------------------------------------------------------------
(* Error values *)

Err(m) == [ok |-> FALSE, message |-> m]

\* impl From<num::ParseIntError> for Error
FromParseIntError(e) == Err(<<"parse int error:", e>>)

\* impl From<io::Error> for Error
FromIoError(e) == Err(<<"io error:", e>>)

----------------------------------------------------------------------------
(* str::parse::<u64> : left-to-right checked accumulation *)

RECURSIVE ParseDigits(_, _, _)
ParseDigits(s, i, value) ==
    IF i > Len(s) THEN [ok |-> TRUE, value |-> value]
    ELSE IF s[i] \notin AsciiDigits
         THEN [ok |-> FALSE, kind |-> "invalid digit found in string"]
    ELSE IF value * 10 + DigitValue(s[i]) > U64_MAX
         THEN [ok |-> FALSE, kind |-> "number too large to fit in target type"]
    ELSE ParseDigits(s, i + 1, value * 10 + DigitValue(s[i]))

ParseU64_Wrapping(s) ==
    IF s = <<>> THEN [ok |-> FALSE, kind |-> "cannot parse integer from empty string"]
    ELSE IF \E i \in 1..Len(s) : s[i] \notin AsciiDigits
         THEN [ok |-> FALSE, kind |-> "invalid digit found in string"]
    ELSE LET RECURSIVE W(_, _)
             W(i, v) == IF i > Len(s) THEN v
                        ELSE W(i + 1, (v * 10 + DigitValue(s[i])) % (U64_MAX + 1))
         IN [ok |-> TRUE, value |-> W(1, 0)]

ParseU64(s) ==
    IF s = <<>> THEN [ok |-> FALSE, kind |-> "cannot parse integer from empty string"]
    ELSE ParseDigits(s, 1, 0)

----------------------------------------------------------------------------
(* Regex::captures for ^(?P<from>\d+)-(?P<to>\d+)\s(?P<letter>\w):\s(?P<password>.+)$ *)

\* Length of the longest run of \d characters of s starting at position i.
RECURSIVE DigitRun(_, _)
DigitRun(s, i) ==
    IF i <= Len(s) /\ IsDigit(s[i]) THEN 1 + DigitRun(s, i + 1) ELSE 0

\* A digit is neither '-' nor whitespace, so each \d+ can only end at the end
\* of its run: the greedy match is the only match.
Captures(s) ==
    LET n == Len(s)
        a == DigitRun(s, 1)
        b == DigitRun(s, a + 2)
        q == a + b + 2
    IN IF /\ a >= 1
          /\ a + 1 <= n /\ s[a + 1] = "-"
          /\ b >= 1
          /\ q + 4 <= n
          /\ IsSpace(s[q])
          /\ IsWord(s[q + 1])
          /\ s[q + 2] = ":"
          /\ IsSpace(s[q + 3])
          /\ \A k \in (q + 4)..n : IsAny(s[k])
       THEN [matched  |-> TRUE,
             from     |-> SubSeq(s, 1, a),
             to       |-> SubSeq(s, a + 2, a + b + 1),
             letter   |-> SubSeq(s, q + 1, q + 1),
             password |-> SubSeq(s, q + 4, n)]
       ELSE [matched |-> FALSE]

----------------------------------------------------------------------------
(* Parser::parse *)

Ok(from, to, letter, password) ==
    [ok |-> TRUE, policy |-> [from |-> from, to |-> to, letter |-> letter],
     password |-> password]

Parse_Swapped(s) ==
    LET caps == Captures(s) IN
    IF caps.matched THEN
        LET from == ParseU64(caps.from)
            to   == ParseU64(caps.to)
        IN IF ~from.ok THEN FromParseIntError(from.kind)
           ELSE IF ~to.ok THEN FromParseIntError(to.kind)
           ELSE Ok(to.value, from.value, caps.letter[1], caps.password)
    ELSE Err(<<"Invalid record">>)

Parse(s) ==
    LET caps == Captures(s) IN
    IF caps.matched THEN
        LET from == ParseU64(caps.from)
            to   == ParseU64(caps.to)
        IN IF ~from.ok THEN FromParseIntError(from.kind)
           ELSE IF ~to.ok THEN FromParseIntError(to.kind)
           ELSE Ok(from.value, to.value, caps.letter[1], caps.password)
    ELSE Err(<<"Invalid record">>)

----------------------------------------------------------------------------
(* Record::validate *)

\* chars.filter(|c| *c == letter).count()
RECURSIVE CountLetter(_, _, _)
CountLetter(chars, letter, i) ==
    IF i > Len(chars) THEN 0
    ELSE (IF chars[i] = letter THEN 1 ELSE 0) + CountLetter(chars, letter, i + 1)

old_policy(count, from, to) == count >= from /\ count <= to

Returned(v) == [panic |-> FALSE, value |-> v]
Panicked(m) == [panic |-> TRUE, message |-> m]

\* x - 1 on u64: an underflow panics when overflow checks are on, wraps otherwise
SubOne(x, oc) ==
    IF x >= 1 THEN Returned(x - 1)
    ELSE IF oc THEN Panicked("attempt to subtract with overflow")
    ELSE Returned(U64_MAX)

\* char_vec[i], i counted from 0: the index is bounds-checked
Index(char_vec, i) ==
    IF i < Len(char_vec) THEN Returned(char_vec[i + 1])
    ELSE Panicked("index out of bounds")

\* the same operand without the length test
PositionHolds_Unguarded(char_vec, p, letter, oc) ==
    LET i == SubOne(p, oc) IN
    IF i.panic THEN i
    ELSE LET c == Index(char_vec, i.value) IN
         IF c.panic THEN c ELSE Returned(c.value = letter)

\* char_vec.len() as u64 >= p && char_vec[(p - 1) as usize] == letter
PositionHolds(char_vec, p, letter, oc) ==
    IF Len(char_vec) >= p
    THEN LET i == SubOne(p, oc) IN
         IF i.panic THEN i
         ELSE LET c == Index(char_vec, i.value) IN
              IF c.panic THEN c ELSE Returned(c.value = letter)
    ELSE Returned(FALSE)

new_policy_Or(lhs, rhs) == lhs \/ rhs

new_policy(lhs, rhs) == lhs # rhs

Validate(r, oc) ==
    LET count == CountLetter(r.password, r.policy.letter, 1)
        old   == old_policy(count, r.policy.from, r.policy.to)
        lhs   == PositionHolds(r.password, r.policy.from, r.policy.letter, oc)
        rhs   == PositionHolds(r.password, r.policy.to, r.policy.letter, oc)
    IN IF lhs.panic THEN [panic |-> TRUE, message |-> lhs.message]
       ELSE IF rhs.panic THEN [panic |-> TRUE, message |-> rhs.message]
       ELSE [panic |-> FALSE, old |-> old, new |-> new_policy(lhs.value, rhs.value)]

----------------------------------------------------------------------------
(* main *)

None == [none |-> TRUE]

FilenameGiven_OffByOne(a) == Len(a) > 0

\* args.len() > 1
FilenameGiven(a) == Len(a) > 1

\* the first closure: parse an Ok line, turn a read error into an Error
ToRecordResult(line_result) ==
    IF line_result.ok THEN Parse(line_result.line)
    ELSE Err(<<"invalid data: ", line_result.error>>)

FoldAcc_Crossed(a, itm) == <<a[1] + itm[1], a[2] + itm[1]>>

\* the fold closure
FoldAcc(a, itm) == <<a[1] + itm[1], a[2] + itm[2]>>

Report(valid) ==
    << <<"The number of valid records by the old method is ", valid[1]>>,
       <<"The number of valud records by the new method is ", valid[2]>> >>

\* Parser::new succeeds (the pattern is a constant, valid regex); then the
\* argument test and read_lines.
Main_Start ==
    /\ pc = "start"
    /\ IF FilenameGiven(args)
       THEN /\ opened' = TRUE
            /\ IF fs_ok
               THEN pc' = "fold" /\ exit' = exit
               ELSE pc' = "exit" /\ exit' = FromIoError("No such file or directory")
       ELSE /\ opened' = opened
            /\ pc' = "exit"
            /\ exit' = Err(<<"filename argument required">>)
    /\ UNCHANGED <<args, fs_ok, file, overflow_checks, pos, acc, stdout>>
    /\ UNCHANGED unitVars

\* One item of the lazy map/map/fold pipeline.
Main_Item ==
    /\ pc = "fold"
    /\ pos < Len(file)
    /\ LET record_result == ToRecordResult(file[pos + 1]) IN
       IF record_result.ok
       THEN LET v == Validate(record_result, overflow_checks) IN
            IF v.panic
            THEN pc' = "panic" /\ UNCHANGED <<pos, acc>>
            ELSE /\ acc' = FoldAcc(acc, <<IF v.old THEN 1 ELSE 0,
                                          IF v.new THEN 1 ELSE 0>>)
                 /\ pos' = pos + 1
                 /\ pc' = pc
       ELSE /\ acc' = FoldAcc(acc, <<0, 0>>)
            /\ pos' = pos + 1
            /\ pc' = pc
    /\ UNCHANGED <<args, fs_ok, file, overflow_checks, opened, stdout, exit>>
    /\ UNCHANGED unitVars

\* The iterator is exhausted: print both totals and return Ok(()).
Main_Report ==
    /\ pc = "fold"
    /\ pos = Len(file)
    /\ stdout' = stdout \o Report(acc)
    /\ exit' = [ok |-> TRUE]
    /\ pc' = "exit"
    /\ UNCHANGED <<args, fs_ok, file, overflow_checks, opened, pos, acc>>
    /\ UNCHANGED unitVars

----------------------------------------------------------------------------
(* Inputs of main *)

OkLine(l) == [ok |-> TRUE, line |-> l]
IoErr == [ok |-> FALSE, error |-> "stream did not contain valid UTF-8"]

FileLines ==
    { <<"1", "-", "3", " ", "a", ":", " ", "a", "b", "c">>,        \* old, new
      <<"1", "-", "3", " ", "a", ":", " ", "a", "a", "a", "a">>,   \* neither
      <<"2", "-", "9", " ", "c", ":", " ",
        "c", "c", "c", "c", "c", "c", "c", "c", "c">>,             \* old only
      <<"1", "-", "2", " ", "a", ":", " ", "b", "a", "a", "a">>,   \* new only
      <<"1", "-", "3", " ", "a", " ", "a", "b", "c">>,             \* no ':'
      <<"0", "-", "1", " ", "a", ":", " ", "a", "b", "c">> }       \* low = 0

FileItems == {OkLine(l) : l \in FileLines} \cup {IoErr}

RECURSIVE SeqsUpTo(_, _)
SeqsUpTo(S, n) ==
    IF n = 0 THEN {<<>>}
    ELSE LET shorter == SeqsUpTo(S, n - 1)
         IN shorter \cup {Append(s, x) : s \in {t \in shorter : Len(t) = n - 1}, x \in S}

Init ==
    /\ args \in {<<"adv2020_2">>, <<"adv2020_2", "input.txt">>}
    /\ fs_ok \in BOOLEAN
    /\ file \in SeqsUpTo(FileItems, MaxLines)
    /\ overflow_checks \in BOOLEAN
    /\ pc = "start"
    /\ opened = FALSE
    /\ pos = 0
    /\ acc = <<0, 0>>
    /\ stdout = <<>>
    /\ exit = None
    /\ line = <<>>
    /\ rec = None
    /\ res = None
    /\ upc = "idle"

Next == Main_Start \/ Main_Item \/ Main_Report

Spec == Init /\ [][Next]_vars

----------------------------------------------------------------------------
(* Unit harness: Parser::parse on one line, then Record::validate on the   *)
(* Record it returned.                                                     *)

\* the digit fields: in range, leading zero, zero, too large, non-ASCII
\* digit, missing
NumStrs ==
    { <<"0">>, <<"1">>, <<"2">>, <<"3">>, <<"4">>, <<"0", "2">>,
      <<"1", "5">>, <<"1", "6">>, <<"9", "9">>, <<"U+0663">>, <<>> }

\* the four separators: '-', \s, ':', \s
Seps ==
    { << <<"-">>, <<" ">>,  <<":">>, <<" ">> >>,
      << <<"-">>, <<"\t">>, <<":">>, <<"\t">> >>,
      << <<"-">>, <<" ">>,  <<":">>, <<" ", " ">> >>,
      << <<>>,    <<" ">>,  <<":">>, <<" ">> >>,
      << <<":">>, <<" ">>,  <<":">>, <<" ">> >>,
      << <<"-">>, <<>>,     <<":">>, <<" ">> >>,
      << <<"-">>, <<" ">>,  <<>>,    <<" ">> >>,
      << <<"-">>, <<" ">>,  <<":">>, <<>> >> }

LetterStrs == { <<"a">>, <<"_">>, <<"-">>, <<>> }

Passwords == SeqsUpTo({"a", "b", " "}, MaxPwLen)

UnitLines ==
    { n1 \o s[1] \o n2 \o s[2] \o w \o s[3] \o s[4] \o pw :
        n1 \in NumStrs, n2 \in NumStrs, s \in Seps, w \in LetterStrs,
        pw \in Passwords }

InitUnit ==
    /\ line \in UnitLines
    /\ overflow_checks \in BOOLEAN
    /\ rec = None
    /\ res = None
    /\ upc = "parse"
    /\ args = <<"adv2020_2">>
    /\ fs_ok = FALSE
    /\ file = <<>>
    /\ pc = "idle"
    /\ opened = FALSE
    /\ pos = 0
    /\ acc = <<0, 0>>
    /\ stdout = <<>>
    /\ exit = None

Unit_Parse ==
    /\ upc = "parse"
    /\ rec' = Parse(line)
    /\ upc' = IF rec'.ok THEN "validate" ELSE "done"
    /\ UNCHANGED <<line, res, overflow_checks>>
    /\ UNCHANGED mainVars

Unit_Validate ==
    /\ upc = "validate"
    /\ res' = Validate(rec, overflow_checks)
    /\ upc' = "done"
    /\ UNCHANGED <<line, rec, overflow_checks>>
    /\ UNCHANGED mainVars

NextUnit == Unit_Parse \/ Unit_Validate

SpecUnit == InitUnit /\ [][NextUnit]_vars

----------------------------------------------------------------------------
(* What the specification says, stated without the code's algorithms *)

\* The ways of reading l as <low>-<high> <target>: <password>: low is
\* l[1..a], high is l[a+2..a+b+1], target is l[a+b+3], password the rest.
Shapes(l) ==
    LET n == Len(l) IN
    { d \in [a : 1..n, b : 1..n] :
        /\ d.a + d.b + 6 <= n
        /\ \A i \in 1..d.a : IsDigit(l[i])
        /\ l[d.a + 1] = "-"
        /\ \A i \in (d.a + 2)..(d.a + d.b + 1) : IsDigit(l[i])
        /\ IsSpace(l[d.a + d.b + 2])
        /\ IsWord(l[d.a + d.b + 3])
        /\ l[d.a + d.b + 4] = ":"
        /\ IsSpace(l[d.a + d.b + 5]) }

Low(l, d) == SubSeq(l, 1, d.a)
High(l, d) == SubSeq(l, d.a + 2, d.a + d.b + 1)

\* the number a string of ASCII digits denotes: sum of digit * 10^place
RECURSIVE DecimalValue(_, _)
DecimalValue(d, i) ==
    IF i > Len(d) THEN 0
    ELSE DigitValue(d[i]) * 10 ^ (Len(d) - i) + DecimalValue(d, i + 1)

InRange(d) ==
    /\ \A i \in 1..Len(d) : d[i] \in AsciiDigits
    /\ DecimalValue(d, 1) <= U64_MAX

WellFormed(l) == \E d \in Shapes(l) : InRange(Low(l, d)) /\ InRange(High(l, d))

Occurrences(r) ==
    Cardinality({i \in 1..Len(r.password) : r.password[i] = r.policy.letter})

PassesCountRange(r) ==
    r.policy.from <= Occurrences(r) /\ Occurrences(r) <= r.policy.to

\* the 1-based position p of the password exists and holds the letter
HoldsAt(r, p) == p \in 1..Len(r.password) /\ r.password[p] = r.policy.letter

PassesPositionXor(r) ==
    \/ HoldsAt(r, r.policy.from) /\ ~HoldsAt(r, r.policy.to)
    \/ ~HoldsAt(r, r.policy.from) /\ HoldsAt(r, r.policy.to)

Parsed == upc \in {"validate", "done"}
Validated == upc = "done" /\ rec.ok

\* the items among the first k that are lines Parser::parse accepts
RecordsIn(k) == {i \in 1..k : file[i].ok /\ Parse(file[i].line).ok}

----------------------------------------------------------------------------
(* Claims *)

\* C1: a malformed line is fatal: when some line of the file fails
\* Parser::parse, main reports no totals and does not end with Ok.
C1_MalformedLineIsFatal ==
    (\E i \in 1..Len(file) : file[i].ok /\ ~Parse(file[i].line).ok)
        => stdout = <<>> /\ (pc = "exit" => ~exit.ok)

\* C2: for every Record, validate returns and its first component is true
\* iff the number of occurrences of the letter is within [from, to].
C2_CountRange ==
    Validated => res.panic = FALSE /\ res.old = PassesCountRange(rec)

\* C2, on the Records for which validate returns: the first component is
\* the count-range rule.
C2_CountRangeWhenReturned ==
    Validated /\ ~res.panic => res.old = PassesCountRange(rec)

\* C3: for 1 <= from and 1 <= to, the second component of validate is true
\* iff exactly one of the 1-based positions from and to holds the letter.
C3_PositionXor ==
    Validated /\ rec.policy.from >= 1 /\ rec.policy.to >= 1
        => res.panic = FALSE /\ res.new = PassesPositionXor(rec)

C3_Witness ==
    /\ Validated /\ rec.policy.from >= 1 /\ rec.policy.to >= 1
    /\ rec.policy.from # rec.policy.to
    /\ HoldsAt(rec, rec.policy.from) /\ HoldsAt(rec, rec.policy.to)
    /\ res.panic = FALSE /\ res.new = FALSE

\* C4: when from or to (each >= 1) is beyond the password, validate returns
\* normally and the second component is whether the other position is in
\* bounds and holds the letter.
C4_OutOfBoundsIsFalse ==
    LET n == Len(rec.password)
        from == rec.policy.from
        to == rec.policy.to
        letter == rec.policy.letter
    IN Validated /\ from >= 1 /\ to >= 1 /\ (from > n \/ to > n)
        => /\ res.panic = FALSE
           /\ from > n => res.new = (to <= n /\ rec.password[to] = letter)
           /\ to > n => res.new = (from <= n /\ rec.password[from] = letter)

C4_Witness ==
    /\ Validated /\ rec.policy.from >= 1
    /\ rec.policy.to > Len(rec.password)
    /\ rec.policy.from <= Len(rec.password)
    /\ res.panic = FALSE /\ res.new = TRUE

\* C5: the two totals are the numbers of records among the items consumed
\* so far that pass the count-range rule and the position-xor rule, and the
\* totals are printed only once every item has been consumed.
C5_TotalsMatchPrefix ==
    /\ acc[1] = Cardinality({i \in RecordsIn(pos) :
                                PassesCountRange(Parse(file[i].line))})
    /\ acc[2] = Cardinality({i \in RecordsIn(pos) :
                                PassesPositionXor(Parse(file[i].line))})
    /\ stdout # <<>> => pos = Len(file) /\ stdout = Report(acc)

C5_Witness ==
    pc = "exit" /\ stdout # <<>> /\ pos = MaxLines /\ acc[1] = 2 /\ acc[2] = 1

\* C6: Parser::parse returns a Record iff the line has the shape
\* <low>-<high> <target>: <password> with both digit strings in range;
\* otherwise it returns an error, and a Record it returns is complete.
C6_ParseAcceptsExactlyWellFormed ==
    Parsed =>
        /\ rec.ok = WellFormed(line)
        /\ rec.ok => DOMAIN rec = {"ok", "policy", "password"}
                     /\ rec.password # <<>>
        /\ ~rec.ok => DOMAIN rec = {"ok", "message"}

C6_Witness ==
    /\ upc = "done" /\ Shapes(line) # {}
    /\ rec = FromParseIntError("number too large to fit in target type")

\* C7: for a well-formed line, the Record has from and to equal to the
\* numbers <low> and <high> denote, letter equal to <target>, and password
\* equal to everything after the separator that follows ':'.
C7_ParseFields ==
    Parsed =>
        \A d \in Shapes(line) :
            InRange(Low(line, d)) /\ InRange(High(line, d)) =>
                /\ rec.ok
                /\ rec.policy.from = DecimalValue(Low(line, d), 1)
                /\ rec.policy.to = DecimalValue(High(line, d), 1)
                /\ rec.policy.letter = line[d.a + d.b + 3]
                /\ rec.password = SubSeq(line, d.a + d.b + 6, Len(line))

C7_Witness ==
    /\ Parsed /\ rec.ok
    /\ rec.policy.from = 2 /\ rec.policy.to = 4
    /\ Len(rec.password) >= 2
    /\ rec.password[1] = " " /\ rec.password[Len(rec.password)] = " "

\* C8: without a filename argument main returns the error "filename argument
\* required", having opened no file, consumed no item and printed nothing.
C8_MissingArgument ==
    Len(args) = 1 /\ pc # "idle" =>
        /\ ~opened /\ pos = 0 /\ stdout = <<>>
        /\ pc \in {"start", "exit"}
        /\ pc = "exit" => exit = Err(<<"filename argument required">>)

C8_Witness == Len(args) = 1 /\ pc = "exit" /\ Len(file) > 0 /\ fs_ok

\* C9: a read failure is fatal: when reading some line yields an I/O error,
\* main reports no totals and does not end with Ok.
C9_ReadFailureIsFatal ==
    (\E i \in 1..Len(file) : ~file[i].ok)
        => stdout = <<>> /\ (pc = "exit" => ~exit.ok)

\* C10: validate returns a pair of booleans, without panicking, for every
\* Record that Parser::parse returns.
C10_ValidateIsTotal == Validated => res.panic = FALSE

====
